---- MODULE Spec2Model ----
(***************************************************************************)
(* Model of p21_print.py: the CRC-16 checksum, the response decoders, the  *)
(* command encoders and the exchange sequence of main() of the Nelko P21   *)
(* label printer script.                                                   *)
(*                                                                         *)
(* Byte strings are sequences of integers 0..255.  Python's None, raised   *)
(* exceptions and returned objects are records with a "kind" field.        *)
(***************************************************************************)
EXTENDS Integers, Sequences, FiniteSets, TLC

VARIABLES
    input,        \* arguments of the pure function under check
    output,       \* what the pure function returned or raised
    args,         \* main: the parsed command line
    pc,           \* main: the block of main() that runs next
    sc,           \* send_command: position inside the call
    request,      \* send_command: the bytes it is about to write
    response,     \* send_command: its return value
    conns,        \* number of serial connections currently open
    writes,       \* writes done by the current send_command call
    reads,        \* reads attempted by the current send_command call
    outstanding,  \* requests written whose read has not been attempted
    written,      \* frames written to the transport, in order
    decoded,      \* last PrinterStatus object built, with the frame it came from
    lastPrint,    \* last object main() printed
    error,        \* the exception that ended main(), if any
    serialFailed  \* whether some serial.SerialException was raised

vars == <<input, output, args, pc, sc, request, response, conns, writes, reads,
          outstanding, written, decoded, lastPrint, error, serialFailed>>

mainVars == <<args, pc, sc, request, response, conns, writes, reads,
              outstanding, written, decoded, lastPrint, error, serialFailed>>

(***************************************************************************)
(* Python values.                                                          *)
(***************************************************************************)
None == [kind |-> "None"]

\* a bytes object
B(data) == [kind |-> "bytes", data |-> data]

\* the pure function has not been applied yet
Pending == [kind |-> "pending"]

Raise(exc) == [kind |-> "error", exc |-> exc]

Bytes == 0..255

\* data[-2:]
LastTwo(data) == IF Len(data) <= 2 THEN data ELSE SubSeq(data, Len(data) - 1, Len(data))

\* data[:-2]
AllButLastTwo(data) == IF Len(data) <= 2 THEN <<>> ELSE SubSeq(data, 1, Len(data) - 2)

\* data[start:-2]
SliceToLastTwo(data, start) ==
    IF Len(data) - 2 <= start THEN <<>> ELSE SubSeq(data, start + 1, Len(data) - 2)

\* bytes.startswith
StartsWith(data, prefix) ==
    /\ Len(data) >= Len(prefix)
    /\ SubSeq(data, 1, Len(prefix)) = prefix

\* bytes.ljust(width, fill)
Ljust(data, width, fill) ==
    IF Len(data) >= width THEN data
    ELSE [i \in 1..width |-> IF i <= Len(data) THEN data[i] ELSE fill]

RECURSIVE BitXor(_, _)
\* a ^ b on non-negative integers
BitXor(a, b) ==
    IF a = 0 THEN b
    ELSE IF b = 0 THEN a
    ELSE (((a % 2) + (b % 2)) % 2) + 2 * BitXor(a \div 2, b \div 2)

\* a ^ b on 4-bit values, tabulated
NibbleXor == [x \in 0..15, y \in 0..15 |-> BitXor(x, y)]

\* a ^ b on values below 2^16, nibble by nibble
Xor16(a, b) ==
    NibbleXor[a % 16, b % 16]
    + 16 * NibbleXor[(a \div 16) % 16, (b \div 16) % 16]
    + 256 * NibbleXor[(a \div 256) % 16, (b \div 256) % 16]
    + 4096 * NibbleXor[(a \div 4096) % 16, (b \div 4096) % 16]

RECURSIVE DecimalDigits(_)
\* the decimal digits of n >= 0, as ASCII codes
DecimalDigits(n) ==
    IF n < 10 THEN <<48 + n>> ELSE DecimalDigits(n \div 10) \o <<48 + (n % 10)>>

\* str(n).encode() of an int
IntStr(n) == IF n < 0 THEN <<45>> \o DecimalDigits(-n) ELSE DecimalDigits(n)

CRLF == <<13, 10>>

(***************************************************************************)
(* crc16 and validate_checksum.                                            *)
(***************************************************************************)
CrcPoly == 40961       \* 0xA001

CrcInit == 65535       \* 0xFFFF

\* mutation of CrcShift: the polynomial is never XORed in
CrcShiftNoPoly(crc) == crc \div 2

\* one pass of the inner loop body: shift right, XOR the polynomial on a set LSB
CrcShift(crc) ==
    IF crc % 2 = 1 THEN Xor16(crc \div 2, CrcPoly) ELSE crc \div 2

RECURSIVE CrcShifts(_, _)
\* the register after n passes of the inner loop
CrcShifts(crc, n) == IF n = 0 THEN crc ELSE CrcShift(CrcShifts(crc, n - 1))

\* one pass of the outer loop body: crc ^= byte, then the 8 inner passes
CrcByte[crc \in Nat, byte \in Nat] == CrcShifts(Xor16(crc, byte), 8)

RECURSIVE CrcRegister(_, _)
\* the register after the first n bytes of data went through the outer loop
CrcRegister(data, n) ==
    IF n = 0 THEN CrcInit ELSE CrcByte[CrcRegister(data, n - 1), data[n]]

\* crc.to_bytes(2, byteorder="big")
ToBytesBig(crc) == <<crc \div 256, crc % 256>>

crc16(data) == ToBytesBig(CrcRegister(data, Len(data)))

\* mutation of validate_checksum: the comparison never fails
validate_checksum_NoCompare(data) ==
    IF data = None THEN Raise("TypeError") ELSE None

\* returns None, or raises ValueError("Invalid checksum: ...")
validate_checksum(data) ==
    IF data = None THEN Raise("TypeError")
    ELSE IF LastTwo(data.data) # crc16(AllButLastTwo(data.data))
         THEN Raise("ValueError: Invalid checksum")
    ELSE None

(***************************************************************************)
(* The enums.  An IntEnum member is its integer value; calling the class   *)
(* with a value that no member has raises ValueError.                      *)
(***************************************************************************)
READY == 0

LID_OPEN == 1

OUT_OF_PAPER == 4

BUSY == 32

PrinterReadinessStatusValues == {READY, LID_OPEN, OUT_OF_PAPER, BUSY}

PrinterReadinessStatus(value) ==
    IF value \in PrinterReadinessStatusValues
    THEN [kind |-> "enum", value |-> value]
    ELSE Raise("ValueError: not a valid PrinterReadinessStatus")

CONTINUOUS == 0

GAPPED == 1

BLACKMARK == 2

PaperTypeValues == {CONTINUOUS, GAPPED, BLACKMARK}

PaperType(value) ==
    IF value \in PaperTypeValues
    THEN [kind |-> "enum", value |-> value]
    ELSE Raise("ValueError: not a valid PaperType")

UNKNOWN == 0

TRANSPARENT == 2

WHITE == 3

PINK == 4

BLUE == 5

YELLOW == 6

PaperColorValues == {UNKNOWN, TRANSPARENT, WHITE, PINK, BLUE, YELLOW}

PaperColor(value) ==
    IF value \in PaperColorValues
    THEN [kind |-> "enum", value |-> value]
    ELSE Raise("ValueError: not a valid PaperColor")

NEVER == 0

MINUTES_15 == 1

MINUTES_30 == 2

MINUTES_60 == 3

TimeoutSettingValues == {NEVER, MINUTES_15, MINUTES_30, MINUTES_60}

TimeoutSetting(value) ==
    IF value \in TimeoutSettingValues
    THEN [kind |-> "enum", value |-> value]
    ELSE Raise("ValueError: not a valid TimeoutSetting")

OFF == 0

ON == 1

BeepSettingValues == {OFF, ON}

\* the value is a bool (struct format "?"), and True == 1, False == 0
BeepSetting(value) ==
    LET v == IF value THEN 1 ELSE 0
    IN  IF v \in BeepSettingValues
        THEN [kind |-> "enum", value |-> v]
        ELSE Raise("ValueError: not a valid BeepSetting")

(***************************************************************************)
(* The response decoders.  data[k] of the code is data[k + 1] here.        *)
(***************************************************************************)
StatusFrameLen == 16

\* mutation of PrinterStatus: label_length read one byte too far
PrinterStatusShifted(data) ==
    LET st == PrinterReadinessStatus(data[1])
        color == PaperColor(data[5])
        paper == PaperType(data[8])
    IN  IF st.kind = "error" THEN st
        ELSE IF color.kind = "error" THEN color
        ELSE IF paper.kind = "error" THEN paper
        ELSE [kind |-> "PrinterStatus",
              printer_status |-> st.value,
              data_length |-> data[2],
              data_unknown |-> data[3],
              data_unknown2 |-> data[4],
              label_color |-> color.value,
              border_radius |-> data[7],
              data_unknown3 |-> data[6],
              paper_type |-> paper.value,
              data_unknown4 |-> data[9],
              data_unknown5 |-> data[10],
              data_unknown6 |-> data[11],
              label_length |-> data[13],
              maximum_label_width |-> data[13],
              label_width |-> data[14],
              data_unknown7 |-> data[15]]

\* PrinterStatus.__init__ on the 16-tuple; the enum calls raise in source order
PrinterStatus(data) ==
    LET st == PrinterReadinessStatus(data[1])
        color == PaperColor(data[5])
        paper == PaperType(data[8])
    IN  IF st.kind = "error" THEN st
        ELSE IF color.kind = "error" THEN color
        ELSE IF paper.kind = "error" THEN paper
        ELSE [kind |-> "PrinterStatus",
              printer_status |-> st.value,
              data_length |-> data[2],
              data_unknown |-> data[3],
              data_unknown2 |-> data[4],
              label_color |-> color.value,
              border_radius |-> data[7],
              data_unknown3 |-> data[6],
              paper_type |-> paper.value,
              data_unknown4 |-> data[9],
              data_unknown5 |-> data[10],
              data_unknown6 |-> data[11],
              label_length |-> data[12],
              maximum_label_width |-> data[13],
              label_width |-> data[14],
              data_unknown7 |-> data[15]]

\* struct.unpack(">BBBBBBBBBBBBBBBB", status), then PrinterStatus
unpack_printer_status(status) ==
    IF status = None THEN Raise("TypeError")
    ELSE IF Len(status.data) # StatusFrameLen THEN Raise("struct.error")
    ELSE PrinterStatus(status.data)

\* get_printer_status once send_command has returned status
StatusFromResponse(status) ==
    LET checked == validate_checksum(status)
    IN  IF checked.kind = "error" THEN checked ELSE unpack_printer_status(status)

ConfigPrefix == <<67, 79, 78, 70, 73, 71, 32>>       \* "CONFIG "

BatteryPrefix == <<66, 65, 84, 84, 69, 82, 89, 32>>  \* "BATTERY "

ConfigLen == 10

BatteryLen == 2

\* mutation of clean_serial_response: the prefix is not looked at
clean_serial_response_AnyPrefix(resp, prefix, expected_len) ==
    IF resp = None THEN Raise("TypeError")
    ELSE LET cleaned_response == SliceToLastTwo(resp.data, Len(prefix))
         IN  IF Len(cleaned_response) # expected_len
             THEN Raise("ValueError: Invalid response")
             ELSE B(cleaned_response)

clean_serial_response(resp, prefix, expected_len) ==
    IF resp = None THEN Raise("TypeError")
    ELSE LET cleaned_response == SliceToLastTwo(resp.data, Len(prefix))
         IN  IF \/ ~StartsWith(resp.data, prefix)
                \/ Len(cleaned_response) # expected_len
             THEN Raise("ValueError: Invalid response")
             ELSE B(cleaned_response)

\* struct format "h": big-endian signed 16 bit
UnpackShort(hi, lo) ==
    LET u == hi * 256 + lo IN IF u >= 32768 THEN u - 65536 ELSE u

\* struct format "?"
UnpackBool(byte) == byte # 0

\* struct.unpack(">hBBBBBBB?", configdata)
UnpackConfig(d) ==
    <<UnpackShort(d[1], d[2]), d[3], d[4], d[5], d[6], d[7], d[8], d[9], UnpackBool(d[10])>>

DeviceConfig(data) ==
    LET timeout == TimeoutSetting(data[8])
        beep == BeepSetting(data[9])
    IN  IF timeout.kind = "error" THEN timeout
        ELSE IF beep.kind = "error" THEN beep
        ELSE [kind |-> "DeviceConfig",
              dpi_resolution |-> data[1],
              hardware_version |-> <<data[2], data[3], data[4]>>,
              second_firmware_version |-> <<data[5], data[6], data[7]>>,
              timeout_setting |-> timeout.value,
              beep_setting |-> beep.value]

\* get_config once send_command has returned data
ConfigFromResponse(data) ==
    LET configdata == clean_serial_response(data, ConfigPrefix, ConfigLen)
    IN  IF configdata.kind = "error" THEN configdata
        ELSE DeviceConfig(UnpackConfig(configdata.data))

\* struct.unpack(">B?", configdata)
UnpackBattery(d) == <<d[1], UnpackBool(d[2])>>

BatteryData(data) ==
    [kind |-> "BatteryData",
     battery_level |-> (data[1] \div 16) * 10 + (data[1] % 16),
     charging |-> data[2]]

\* get_battery once send_command has returned response
BatteryFromResponse(resp) ==
    LET configdata == clean_serial_response(resp, BatteryPrefix, BatteryLen)
    IN  IF configdata.kind = "error" THEN configdata
        ELSE BatteryData(UnpackBattery(configdata.data))

(***************************************************************************)
(* The command encoders.  A str is the sequence of its code points, all    *)
(* below 128 here, so that str.encode() keeps them as they are.            *)
(***************************************************************************)
Str(codes) == [kind |-> "str", data |-> codes]

\* f"{value}" of a str or of None
Format(value) == IF value = None THEN <<78, 111, 110, 101>> ELSE value.data

\* None is what the bare "return" of the default case gives
get_timeout_command(timeout) ==
    CASE timeout = 0 -> Str(<<84, 73, 77, 69, 79, 85, 84, 32, NEVER>>)
      [] timeout = 15 -> Str(<<84, 73, 77, 69, 79, 85, 84, 32, MINUTES_15>>)
      [] timeout = 30 -> Str(<<84, 73, 77, 69, 79, 85, 84, 32, MINUTES_30>>)
      [] timeout = 60 -> Str(<<84, 73, 77, 69, 79, 85, 84, 32, MINUTES_60>>)
      [] OTHER -> None

get_beep_command(beep) ==
    Str(<<66, 69, 69, 80, 32, IF beep THEN ON ELSE OFF>>)

BitmapLen == 3408

\* the tail of load_image: the raster of the converted image, padded with 0xFF
load_image(bitdata) == Ljust(bitdata, BitmapLen, 255)

\* mutation of build_print_command: density embedded as a character, as the
\* TIMEOUT and BEEP commands embed their ordinal
build_print_command_CharDensity(imagedata, density, copies) ==
    <<27, 33, 111, 13, 10>>
    \o <<83, 73, 90, 69, 32, 49, 52, 46, 48, 32, 109, 109, 44, 52, 48, 46, 48, 32, 109, 109, 13, 10>>
    \o <<71, 65, 80, 32, 53, 46, 48, 32, 109, 109, 44, 48, 32, 109, 109, 13, 10>>
    \o <<68, 73, 82, 69, 67, 84, 73, 79, 78, 32, 49, 44, 49, 13, 10>>
    \o <<68, 69, 78, 83, 73, 84, 89, 32>> \o <<density>> \o CRLF
    \o <<67, 76, 83, 13, 10>>
    \o <<66, 73, 84, 77, 65, 80, 32, 48, 44, 48, 44, 49, 50, 44, 50, 56, 52, 44, 49, 44>>
    \o imagedata
    \o <<13, 10, 80, 82, 73, 78, 84, 32>> \o IntStr(copies) \o CRLF

build_print_command(imagedata, density, copies) ==
    <<27, 33, 111, 13, 10>>                                        \* ESC !o CR LF
    \o <<83, 73, 90, 69, 32, 49, 52, 46, 48, 32, 109, 109, 44, 52, 48, 46, 48, 32, 109, 109, 13, 10>>
                                                                   \* SIZE 14.0 mm,40.0 mm
    \o <<71, 65, 80, 32, 53, 46, 48, 32, 109, 109, 44, 48, 32, 109, 109, 13, 10>>
                                                                   \* GAP 5.0 mm,0 mm
    \o <<68, 73, 82, 69, 67, 84, 73, 79, 78, 32, 49, 44, 49, 13, 10>>
                                                                   \* DIRECTION 1,1
    \o <<68, 69, 78, 83, 73, 84, 89, 32>> \o IntStr(density) \o CRLF   \* DENSITY {density}
    \o <<67, 76, 83, 13, 10>>                                      \* CLS
    \o <<66, 73, 84, 77, 65, 80, 32, 48, 44, 48, 44, 49, 50, 44, 50, 56, 52, 44, 49, 44>>
                                                                   \* BITMAP 0,0,12,284,1,
    \o imagedata
    \o <<13, 10, 80, 82, 73, 78, 84, 32>> \o IntStr(copies) \o CRLF    \* PRINT {copies}

(***************************************************************************)
(* Checksum specification: a frame is some data followed by crc16 of it;   *)
(* one byte of the data may be overwritten; validate_checksum judges it.   *)
(***************************************************************************)
MaxDataLen == 3

ByteSample == {0, 1, 128, 255}

\* the first 14 bytes of the frame of test.py
TestVectorData == <<32, 12, 1, 18, 3, 0, 3, 1, 18, 18, 21, 40, 15, 14>>

RECURSIVE SeqsUpTo(_, _)
SeqsUpTo(S, n) ==
    IF n = 0 THEN {<<>>}
    ELSE LET shorter == SeqsUpTo(S, n - 1)
         IN  shorter \cup {Append(q, x) : q \in {r \in shorter : Len(r) = n - 1}, x \in S}

ChecksumData == SeqsUpTo(ByteSample, MaxDataLen) \cup {TestVectorData}

InitMainIdle ==
    /\ args = None
    /\ pc = "done"
    /\ sc = "idle"
    /\ request = None
    /\ response = None
    /\ conns = 0
    /\ writes = 0
    /\ reads = 0
    /\ outstanding = 0
    /\ written = <<>>
    /\ decoded = None
    /\ lastPrint = None
    /\ error = None
    /\ serialFailed = FALSE

InitChecksum ==
    /\ input \in {[data |-> d, frame |-> d \o crc16(d), corrupted |-> FALSE] : d \in ChecksumData}
    /\ output = Pending
    /\ InitMainIdle

CorruptByte ==
    /\ ~input.corrupted
    /\ \E i \in 1..Len(input.data), v \in Bytes :
          /\ v # input.frame[i]
          /\ input' = [input EXCEPT !.frame[i] = v, !.corrupted = TRUE]
    /\ output' = Pending
    /\ UNCHANGED mainVars

Validate ==
    /\ output = Pending
    /\ output' = validate_checksum(B(input.frame))
    /\ UNCHANGED <<input, mainVars>>

NextChecksum == CorruptByte \/ Validate

SpecChecksum == InitChecksum /\ [][NextChecksum]_vars

\* C1: a frame made of any data followed by crc16 of that data passes
\* validate_checksum, and the same frame with exactly one data byte changed
\* (checksum bytes kept) fails with the checksum-mismatch ValueError; the
\* checksum is the 16-bit register, high byte first (reference vectors:
\* empty -> FF FF, 00 -> 40 BF, the frame of test.py -> 0D 22).
C1_ChecksumRoundTrip ==
    /\ output # Pending =>
          IF input.corrupted
          THEN output = Raise("ValueError: Invalid checksum")
          ELSE output = None
    /\ ~input.corrupted =>
          /\ Len(input.frame) = Len(input.data) + 2
          /\ input.data = <<>> => input.frame = <<255, 255>>
          /\ input.data = <<0>> => input.frame = <<0, 64, 191>>
          /\ input.data = TestVectorData => LastTwo(input.frame) = <<13, 34>>

C1_Witness ==
    /\ input.corrupted
    /\ Len(input.data) >= 2
    /\ output = Raise("ValueError: Invalid checksum")

(***************************************************************************)
(* Decoder specification: a response read from the transport is handed to *)
(* one of the three decoders.                                              *)
(***************************************************************************)
MaxPayloadLen == 11

\* a 14-byte status record, all bytes 0 but those given
StatusRecord(b0, b4, b7, b11, b12, b13) ==
    <<b0, 0, 0, 0, b4, 0, 0, b7, 0, 0, 0, b11, b12, b13>>

ExampleRecord == StatusRecord(0, 3, 1, 40, 20, 14)

WithChecksum(record) == record \o crc16(record)

StatusResponses ==
    {WithChecksum(StatusRecord(b, 3, 1, 40, 20, 14)) : b \in Bytes}
    \cup {WithChecksum(StatusRecord(0, b, 1, 40, 20, 14)) : b \in Bytes}
    \cup {WithChecksum(StatusRecord(0, 3, b, 40, 20, 14)) : b \in Bytes}
    \cup {WithChecksum(StatusRecord(4, 6, 2, l, m, w)) : l \in {0, 40}, m \in {0, 20}, w \in {0, 14}}
    \cup {WithChecksum(TestVectorData)}
    \* a 16-byte record followed by its checksum: 18 bytes
    \cup {WithChecksum(ExampleRecord \o <<0, 0>>), WithChecksum(TestVectorData \o <<13, 34>>)}
    \* frames whose last two bytes are not the checksum of the rest
    \cup {ExampleRecord \o <<0, 0>>, TestVectorData \o <<34, 13>>}

LowerConfigPrefix == <<99, 111, 110, 102, 105, 103, 32>>   \* "config "

Payload(n, timeout, beep) ==
    [i \in 1..n |-> IF i = 9 THEN timeout ELSE IF i = 10 THEN beep ELSE i]

EnvelopeResponses ==
    {ConfigPrefix \o Payload(ConfigLen, t, 1) \o CRLF : t \in Bytes}
    \cup {ConfigPrefix \o Payload(ConfigLen, 2, b) \o CRLF : b \in Bytes}
    \cup {p \o Payload(n, 1, 0) \o CRLF :
            p \in {ConfigPrefix, LowerConfigPrefix, BatteryPrefix}, n \in 0..MaxPayloadLen}
    \cup {BatteryPrefix \o <<level, charging>> \o CRLF :
            level \in {0, 66, 153}, charging \in {0, 1, 2}}
    \cup {<<>>, <<67, 79, 78>>, ConfigPrefix, BatteryPrefix \o CRLF}

DecodeResponses == StatusResponses \cup EnvelopeResponses

InitDecode ==
    /\ input \in {[response |-> B(r)] : r \in DecodeResponses}
    /\ output = Pending
    /\ InitMainIdle

DecodeStatus ==
    /\ output = Pending
    /\ output' = [kind |-> "decoded", op |-> "status",
                  result |-> StatusFromResponse(input.response)]
    /\ UNCHANGED <<input, mainVars>>

DecodeConfig ==
    /\ output = Pending
    /\ output' = [kind |-> "decoded", op |-> "config",
                  result |-> ConfigFromResponse(input.response)]
    /\ UNCHANGED <<input, mainVars>>

DecodeBattery ==
    /\ output = Pending
    /\ output' = [kind |-> "decoded", op |-> "battery",
                  result |-> BatteryFromResponse(input.response)]
    /\ UNCHANGED <<input, mainVars>>

NextDecode == DecodeStatus \/ DecodeConfig \/ DecodeBattery

SpecDecode == InitDecode /\ [][NextDecode]_vars

\* the frame's last 2 bytes are crc16 of the bytes before them
ChecksumValid(frame) == LastTwo(frame) = crc16(AllButLastTwo(frame))

\* C2: decoding never fails because of an uncatalogued enum value: every
\* checksum-valid status frame, whatever bytes 0, 4 and 7 hold, decodes to a
\* PrinterStatus, and every well-formed config envelope, whatever the timeout
\* and beep bytes hold, decodes to a DeviceConfig.
C2_DecodeNeverFailsOnEnumValue ==
    output # Pending =>
        LET frame == input.response.data
        IN  /\ (/\ output.op = "status"
                /\ Len(frame) = StatusFrameLen
                /\ ChecksumValid(frame))
               => output.result.kind = "PrinterStatus"
            /\ (/\ output.op = "config"
                /\ StartsWith(frame, ConfigPrefix)
                /\ Len(frame) = Len(ConfigPrefix) + ConfigLen + 2)
               => output.result.kind = "DeviceConfig"

Positional(status, frame) ==
    /\ status.printer_status = frame[1]
    /\ status.label_color = frame[5]
    /\ status.paper_type = frame[8]
    /\ status.label_length = frame[12]
    /\ status.maximum_label_width = frame[13]
    /\ status.label_width = frame[14]

MaxDensity == 16

MaxCopies == 11

Bitmap(n, fill, pos, special) ==
    [i \in 1..n |-> IF i = pos THEN special ELSE fill]

EncodeBitmaps ==
    {Bitmap(n, 255, p, x) :
        n \in {BitmapLen - 1, BitmapLen, BitmapLen + 1}, p \in {1, BitmapLen - 1}, x \in {10, 13, 27}}
    \cup {Bitmap(n, 0, 0, 0) : n \in {BitmapLen - 1, BitmapLen, BitmapLen + 1}}

InitEncode ==
    /\ input \in [imagedata : EncodeBitmaps, density : 0..MaxDensity, copies : 0..MaxCopies]
    /\ output = Pending
    /\ InitMainIdle

BuildPrint ==
    /\ output = Pending
    /\ output' = B(build_print_command(input.imagedata, input.density, input.copies))
    /\ UNCHANGED <<input, mainVars>>

NextEncode == BuildPrint

SpecEncode == InitEncode /\ [][NextEncode]_vars

\* C5: a print frame is produced only for a bitmap of exactly 3408 bytes, a
\* density in 1..15 and copies >= 1; any other bitmap length is rejected with
\* InvalidBitmapLength, any other density or copies with InvalidParameter.
C5_PrintJobRejectsInvalidInput ==
    output # Pending =>
        /\ output.kind = "bytes" =>
              /\ Len(input.imagedata) = 3408
              /\ input.density \in 1..15
              /\ input.copies >= 1
        /\ Len(input.imagedata) # 3408 => output.kind = "error"
        /\ (input.density \notin 1..15 \/ input.copies < 1) => output.kind = "error"

\* the decimal digits of 0 <= n <= 999
Digits3(n) ==
    IF n < 10 THEN <<48 + n>>
    ELSE IF n < 100 THEN <<48 + (n \div 10), 48 + (n % 10)>>
    ELSE <<48 + (n \div 100), 48 + ((n \div 10) % 10), 48 + (n % 10)>>

\* C8: for a bitmap of exactly 3408 bytes, a density in 1..15 and copies >= 1
\* the frame is ESC "!o" CR LF, "SIZE 14.0 mm,40.0 mm\r\n", "GAP 5.0 mm,0 mm\r\n",
\* "DIRECTION 1,1\r\n", "DENSITY <density>\r\n", "CLS\r\n", "BITMAP 0,0,12,284,1,",
\* the bitmap bytes and "\r\nPRINT <copies>\r\n", in this order, and the bitmap
\* segment equals the input byte for byte (0x0A, 0x0D and 0x1B included).
C8_PrintFrameLayout ==
    (/\ output # Pending
     /\ Len(input.imagedata) = 3408
     /\ input.density \in 1..15
     /\ input.copies >= 1)
    => LET frame == output.data
           dd == Len(Digits3(input.density))
           cd == Len(Digits3(input.copies))
           off == 67 + dd + 27
       IN  /\ output.kind = "bytes"
           /\ Len(frame) = off + 3408 + 8 + cd + 2
           /\ SubSeq(frame, 1, 67) =
                <<27, 33, 111, 13, 10, 83, 73, 90, 69, 32, 49, 52, 46, 48, 32, 109, 109,
                  44, 52, 48, 46, 48, 32, 109, 109, 13, 10, 71, 65, 80, 32, 53, 46, 48,
                  32, 109, 109, 44, 48, 32, 109, 109, 13, 10, 68, 73, 82, 69, 67, 84, 73,
                  79, 78, 32, 49, 44, 49, 13, 10, 68, 69, 78, 83, 73, 84, 89, 32>>
           /\ SubSeq(frame, 68, 67 + dd) = Digits3(input.density)
           /\ SubSeq(frame, 68 + dd, off) =
                <<13, 10, 67, 76, 83, 13, 10, 66, 73, 84, 77, 65, 80, 32, 48, 44, 48,
                  44, 49, 50, 44, 50, 56, 52, 44, 49, 44>>
           /\ \A i \in 1..3408 : frame[off + i] = input.imagedata[i]
           /\ SubSeq(frame, off + 3409, off + 3416) = <<13, 10, 80, 82, 73, 78, 84, 32>>
           /\ SubSeq(frame, off + 3417, off + 3416 + cd) = Digits3(input.copies)
           /\ SubSeq(frame, off + 3417 + cd, Len(frame)) = <<13, 10>>

C8_Witness ==
    /\ output # Pending
    /\ output.kind = "bytes"
    /\ Len(input.imagedata) = 3408
    /\ input.imagedata[1] = 10
    /\ input.density = 15
    /\ input.copies = 10

(***************************************************************************)
(* main(): the blocks run in source order, each behind its flag; every     *)
(* send_command call is open, write, read, leave the with block, return.   *)
(* A serial.SerialException at any of the three raises out of the with     *)
(* block (which closes the connection if it was opened) into the except    *)
(* clause, and send_command returns None.  An exception no code catches    *)
(* ends main(): error holds it, and nothing runs after it.                 *)
(***************************************************************************)
MaxFlags == 2

PyInt(n) == [kind |-> "int", value |-> n]

\* the rasters image.tobytes() gives for the images tried (before padding)
Rasters == {<<>>, <<0, 10, 13, 27, 255>>}

\* what the printer may answer, or an empty read after the 1 s timeout
MainResponses ==
    { WithChecksum(ExampleRecord),                     \* READY
      WithChecksum(TestVectorData),                    \* BUSY, the frame of test.py
      WithChecksum(StatusRecord(2, 3, 1, 40, 20, 14)), \* readiness 2: no member
      ExampleRecord \o <<0, 0>>,                       \* wrong checksum
      WithChecksum(ExampleRecord \o <<0, 0>>),         \* 18 bytes
      <<>>,
      ConfigPrefix \o Payload(ConfigLen, 2, 1) \o CRLF,
      BatteryPrefix \o <<66, 1>> \o CRLF }

Blocks == <<"image", "config", "battery", "timeout", "beep", "status", "selftest">>

\* the "if args.<flag>:" in front of a block
Truthy(a, block) ==
    CASE block = "image" -> a.image # None
      [] block = "config" -> a.config
      [] block = "battery" -> a.battery
      [] block = "timeout" -> a.timeout # None /\ a.timeout.value # 0
      [] block = "beep" -> a.beep
      [] block = "status" -> a.status
      [] block = "selftest" -> a.selftest

RECURSIVE FirstBlockFrom(_, _)
\* the first block at or after the k-th whose flag is truthy
FirstBlockFrom(a, k) ==
    IF k > Len(Blocks) THEN "done"
    ELSE IF Truthy(a, Blocks[k]) THEN Blocks[k]
    ELSE FirstBlockFrom(a, k + 1)

BlockIndex(block) == CHOOSE k \in 1..Len(Blocks) : Blocks[k] = block

\* where main() goes when the block at pc is finished
BlockAfter(a, block) ==
    CASE block = "timeout_config" -> FirstBlockFrom(a, BlockIndex("timeout") + 1)
      [] block = "beep_config" -> FirstBlockFrom(a, BlockIndex("beep") + 1)
      [] OTHER -> FirstBlockFrom(a, BlockIndex(block) + 1)

\* the options given on the command line that select a block
FlagCount(a) ==
    Cardinality({b \in {"image", "config", "battery", "beep", "status", "selftest"} : Truthy(a, b)})
    + (IF a.timeout # None THEN 1 ELSE 0)

ArgSets ==
    {a \in [image : {None} \cup {B(r) : r \in Rasters},
            density : {15, 16},
            copies : {1},
            config : BOOLEAN, battery : BOOLEAN,
            timeout : {None} \cup {PyInt(m) : m \in {0, 15, 30, 45, 60}},
            beep : BOOLEAN, status : BOOLEAN, selftest : BOOLEAN,
            debug : BOOLEAN] :
        /\ FlagCount(a) <= MaxFlags
        /\ a.image = None => a.density = 15 /\ ~a.debug}

\* the bytes send_command(command, encode) hands to ser.write
WriteBytes(command, encode) ==
    IF encode THEN Format(command) \o CRLF ELSE command.data

\* the send_command call of the block at pc
RequestOf(a, block) ==
    CASE block = "image" ->
            WriteBytes(B(build_print_command(load_image(a.image.data), a.density, a.copies)), FALSE)
      [] block \in {"config", "timeout_config", "beep_config"} ->
            WriteBytes(Str(<<67, 79, 78, 70, 73, 71, 63>>), TRUE)               \* CONFIG?
      [] block = "battery" ->
            WriteBytes(Str(<<66, 65, 84, 84, 69, 82, 89, 63>>), TRUE)           \* BATTERY?
      [] block = "timeout" -> WriteBytes(get_timeout_command(a.timeout.value), TRUE)
      [] block = "beep" -> WriteBytes(get_beep_command(a.beep), TRUE)
      [] block = "status" -> WriteBytes(Str(<<27, 33, 111, 13, 10>>), TRUE)     \* ESC !o CR LF
      [] block = "selftest" ->
            WriteBytes(Str(<<83, 69, 76, 70, 84, 69, 83, 84>>), TRUE)           \* SELFTEST

\* mutation of SerialExit: the port is left open (no with block)
SerialExitLeak(c) == c

\* leaving "with serial.Serial(...) as ser" closes the connection
SerialExit(c) == c - 1

\* the image block of main() once send_command has returned answer
MainImageStatus(answer) ==
    LET checked == validate_checksum(answer)
    IN  IF checked.kind = "error" THEN checked ELSE unpack_printer_status(answer)

Init ==
    /\ input = None
    /\ output = None
    /\ args \in ArgSets
    /\ pc = FirstBlockFrom(args, 1)
    /\ sc = "idle"
    /\ request = None
    /\ response = None
    /\ conns = 0
    /\ writes = 0
    /\ reads = 0
    /\ outstanding = 0
    /\ written = <<>>
    /\ decoded = None
    /\ lastPrint = None
    /\ error = None
    /\ serialFailed = FALSE

Running == error = None /\ pc # "done"

\* send_command is entered
Call ==
    /\ Running
    /\ sc = "idle"
    /\ request' = B(RequestOf(args, pc))
    /\ response' = None
    /\ writes' = 0
    /\ reads' = 0
    /\ sc' = "open"
    /\ UNCHANGED <<input, output, args, pc, conns, outstanding, written, decoded,
                   lastPrint, error, serialFailed>>

\* serial.Serial(SERIAL_DEVICE, 115200, timeout=1)
SerialOpen ==
    /\ Running
    /\ sc = "open"
    /\ \/ /\ conns' = conns + 1
          /\ sc' = "write"
          /\ UNCHANGED <<response, serialFailed>>
       \/ /\ serialFailed' = TRUE
          /\ response' = None
          /\ sc' = "returned"
          /\ UNCHANGED conns
    /\ UNCHANGED <<input, output, args, pc, request, writes, reads, outstanding,
                   written, decoded, lastPrint, error>>

\* ser.write
SerialWrite ==
    /\ Running
    /\ sc = "write"
    /\ \/ /\ written' = Append(written, [block |-> pc, frame |-> request.data])
          /\ writes' = writes + 1
          /\ outstanding' = outstanding + 1
          /\ sc' = "read"
          /\ UNCHANGED <<conns, response, serialFailed>>
       \/ /\ serialFailed' = TRUE
          /\ conns' = SerialExit(conns)
          /\ response' = None
          /\ sc' = "returned"
          /\ UNCHANGED <<written, writes, outstanding>>
    /\ UNCHANGED <<input, output, args, pc, request, reads, decoded, lastPrint, error>>

\* ser.readline
SerialRead ==
    /\ Running
    /\ sc = "read"
    /\ reads' = reads + 1
    /\ outstanding' = outstanding - 1
    /\ \/ /\ \E r \in MainResponses : response' = B(r)
          /\ sc' = "exit"
          /\ UNCHANGED <<conns, serialFailed>>
       \/ /\ serialFailed' = TRUE
          /\ conns' = SerialExit(conns)
          /\ response' = None
          /\ sc' = "returned"
    /\ UNCHANGED <<input, output, args, pc, request, writes, written, decoded,
                   lastPrint, error>>

\* "return response" leaves the with block
SerialReturn ==
    /\ Running
    /\ sc = "exit"
    /\ conns' = SerialExit(conns)
    /\ sc' = "returned"
    /\ UNCHANGED <<input, output, args, pc, request, response, writes, reads,
                   outstanding, written, decoded, lastPrint, error, serialFailed>>

\* main() after send_command(print_command, encode=False)
FinishImage ==
    /\ Running
    /\ pc = "image"
    /\ sc = "returned"
    /\ LET status == MainImageStatus(response)
       IN  IF status.kind = "error"
           THEN /\ error' = status
                /\ sc' = "raised"
                /\ UNCHANGED <<pc, decoded, lastPrint>>
           ELSE /\ decoded' = [kind |-> "decoded", frame |-> response, status |-> status]
                /\ lastPrint' = IF args.debug \/ status.printer_status # READY
                                THEN [kind |-> "printed", obj |-> status, frame |-> response]
                                ELSE lastPrint
                /\ pc' = BlockAfter(args, pc)
                /\ sc' = "idle"
                /\ UNCHANGED error
    /\ UNCHANGED <<input, output, args, request, response, conns, writes, reads,
                   outstanding, written, serialFailed>>

\* print(get_config()) after send_command("CONFIG?")
FinishConfig ==
    /\ Running
    /\ pc \in {"config", "timeout_config", "beep_config"}
    /\ sc = "returned"
    /\ LET config == ConfigFromResponse(response)
       IN  IF config.kind = "error"
           THEN /\ error' = config
                /\ sc' = "raised"
                /\ UNCHANGED <<pc, lastPrint>>
           ELSE /\ lastPrint' = [kind |-> "printed", obj |-> config, frame |-> response]
                /\ pc' = BlockAfter(args, pc)
                /\ sc' = "idle"
                /\ UNCHANGED error
    /\ UNCHANGED <<input, output, args, request, response, conns, writes, reads,
                   outstanding, written, decoded, serialFailed>>

\* print(get_battery()) after send_command("BATTERY?")
FinishBattery ==
    /\ Running
    /\ pc = "battery"
    /\ sc = "returned"
    /\ LET battery == BatteryFromResponse(response)
       IN  IF battery.kind = "error"
           THEN /\ error' = battery
                /\ sc' = "raised"
                /\ UNCHANGED <<pc, lastPrint>>
           ELSE /\ lastPrint' = [kind |-> "printed", obj |-> battery, frame |-> response]
                /\ pc' = BlockAfter(args, pc)
                /\ sc' = "idle"
                /\ UNCHANGED error
    /\ UNCHANGED <<input, output, args, request, response, conns, writes, reads,
                   outstanding, written, decoded, serialFailed>>

\* the timeout, beep and selftest commands: the response is not looked at
FinishCommand ==
    /\ Running
    /\ pc \in {"timeout", "beep", "selftest"}
    /\ sc = "returned"
    /\ pc' = CASE pc = "timeout" -> "timeout_config"
               [] pc = "beep" -> "beep_config"
               [] pc = "selftest" -> BlockAfter(args, pc)
    /\ sc' = "idle"
    /\ UNCHANGED <<input, output, args, request, response, conns, writes, reads,
                   outstanding, written, decoded, lastPrint, error, serialFailed>>

\* print(f"Printer status: {get_printer_status()}") after send_command
FinishStatus ==
    /\ Running
    /\ pc = "status"
    /\ sc = "returned"
    /\ LET status == StatusFromResponse(response)
       IN  IF status.kind = "error"
           THEN /\ error' = status
                /\ sc' = "raised"
                /\ UNCHANGED <<pc, decoded, lastPrint>>
           ELSE /\ decoded' = [kind |-> "decoded", frame |-> response, status |-> status]
                /\ lastPrint' = [kind |-> "printed", obj |-> status, frame |-> response]
                /\ pc' = BlockAfter(args, pc)
                /\ sc' = "idle"
                /\ UNCHANGED error
    /\ UNCHANGED <<input, output, args, request, response, conns, writes, reads,
                   outstanding, written, serialFailed>>

Next ==
    \/ Call
    \/ SerialOpen
    \/ SerialWrite
    \/ SerialRead
    \/ SerialReturn
    \/ FinishImage
    \/ FinishConfig
    \/ FinishBattery
    \/ FinishCommand
    \/ FinishStatus

Spec == Init /\ [][Next]_vars

\* C4: a --timeout value outside {0, 15, 30, 60} yields no command, and main
\* writes no bytes to the transport for it.
C4_InvalidTimeoutWritesNothing ==
    \A i \in 1..Len(written) :
        written[i].block = "timeout" => args.timeout.value \in {0, 15, 30, 60}

\* a PrinterStatus object exists or was printed only for a frame whose last 2
\* bytes are crc16 of the bytes before them
OnlyValidFramesDecoded ==
    /\ decoded # None => ChecksumValid(decoded.frame.data)
    /\ (lastPrint # None /\ lastPrint.obj.kind = "PrinterStatus")
          => ChecksumValid(lastPrint.frame.data)

\* on both paths that read a status frame, main() ended by a frame with a
\* mismatch ended with the checksum ValueError
MismatchRaised ==
    (/\ sc = "raised"
     /\ pc \in {"image", "status"}
     /\ response # None
     /\ LastTwo(response.data) # crc16(AllButLastTwo(response.data)))
    => error = Raise("ValueError: Invalid checksum")

\* C7: a received status frame whose last 2 bytes differ from crc16 of the
\* preceding bytes is never decoded: in get_printer_status and in the print
\* path of main the mismatch surfaces as an error, and no PrinterStatus is
\* built or printed from that frame.
C7_BadChecksumNeverDecoded == OnlyValidFramesDecoded /\ MismatchRaised

C7_Witness ==
    /\ pc = "image"
    /\ sc = "raised"
    /\ response = B(ExampleRecord \o <<0, 0>>)
    /\ error = Raise("ValueError: Invalid checksum")
    /\ decoded = None

\* C9 as stated: every send_command call, whatever the transport does, has
\* opened the connection, written exactly one request and attempted exactly
\* one read when it returns, with the connection closed.
C9_EveryCallWritesAndReadsOnce ==
    sc = "returned" => /\ writes = 1
                       /\ reads = 1
                       /\ conns = 0

\* C9 amended: the exchanges are strictly sequential.  A send_command call
\* opens at most one connection, writes at most one request and attempts at
\* most one read, the read only after its write succeeded; a call that meets
\* no serial exception does exactly one of each; the connection is closed when
\* send_command returns, on every path.  So at most one connection is open and
\* at most one request is outstanding at any time, and a request is written
\* only when no earlier request still awaits its read.
C9_ExchangesSequential ==
    /\ conns \in {0, 1}
    /\ outstanding \in {0, 1}
    /\ writes \in {0, 1}
    /\ reads \in {0, 1}
    /\ reads <= writes
    /\ sc \in {"idle", "open", "returned", "raised"} => conns = 0 /\ outstanding = 0
    /\ sc = "write" => conns = 1 /\ outstanding = 0 /\ writes = 0
    /\ sc = "read" => conns = 1 /\ outstanding = 1 /\ writes = 1 /\ reads = 0
    /\ sc = "exit" => conns = 1 /\ outstanding = 0 /\ writes = 1 /\ reads = 1
    /\ (sc = "returned" /\ response # None) => writes = 1 /\ reads = 1

C9_Witness ==
    /\ Len(written) = 2
    /\ sc = "returned"
    /\ serialFailed
    /\ response # None

\* the frame "TIMEOUT <c>\r\n", c the character whose code point is the ordinal
TimeoutFrame(m) ==
    <<84, 73, 77, 69, 79, 85, 84, 32>>
    \o <<CASE m = 0 -> 0 [] m = 15 -> 1 [] m = 30 -> 2 [] m = 60 -> 3>>
    \o <<13, 10>>

\* C10: for every m in {0, 15, 30, 60}, main run with --timeout m writes the
\* frame "TIMEOUT <c>\r\n" to the transport, before the CONFIG? query whose
\* result it prints (checked on the runs that end normally with no serial
\* exception).
C10_TimeoutValuesAllSent ==
    (/\ args.timeout # None
     /\ args.timeout.value \in {0, 15, 30, 60}
     /\ pc = "done"
     /\ error = None
     /\ ~serialFailed)
    => \E i, j \in 1..Len(written) :
          /\ i < j
          /\ written[i].frame = TimeoutFrame(args.timeout.value)
          /\ written[j].frame = <<67, 79, 78, 70, 73, 71, 63, 13, 10>>

====
